---- MODULE Spec2Model ----
\* Model of the VACC Switzerland GeoJSON exporter (EuroscopeExporterTest.py):
\* rule resolution, geometry adaptation, the two serializers, the accumulators,
\* the final priority sort and the file writers of the main program.
EXTENDS Integers, Sequences, FiniteSets, TLC

\* ---------------------------------------------------------------- bounds
\* Number of features the input files of one run hold together.
MaxFeatures == 2

\* ---------------------------------------------------------------- values
\* Python's None, for a property that holds a string.
NoneStr == "<None>"

\* Python's None, for the category tag. A tag is modelled as the list
\* category.split("_") gives, which always has at least one segment, so the
\* empty list stands for None.
NoneCat == <<>>

\* A color value is a record: t is the shape of the string ("hex" for
\* "#RRGGBB" with n = 0xRRGGBB, "dec" for a decimal string with value n,
\* "name" for a symbolic name s, "tag" for a two lower-case letter tag s,
\* "none" for None).
HexColor(n) == [t |-> "hex", s |-> "", n |-> n]
DecColor(n) == [t |-> "dec", s |-> "", n |-> n]
NameColor(s) == [t |-> "name", s |-> s, n |-> 0]
TagColor(s) == [t |-> "tag", s |-> s, n |-> 0]
NoneColor == [t |-> "none", s |-> "", n |-> 0]

\* A decimal-degree number is kept in fixed point: its sign, its whole degrees
\* and the rest in ten-thousandths of an arc second.
UnitsPerDegree == 3600 * 10000

Degrees(neg, deg, frac) == [neg |-> neg, deg |-> deg, frac |-> frac]

\* Vertices are (east, north) pairs, as GeoJSON orders them.
P1 == <<Degrees(FALSE, 8, 19771200), Degrees(FALSE, 47, 16729200)>>
P2 == <<Degrees(FALSE, 8, 20000000), Degrees(FALSE, 47, 16000000)>>
P3 == <<Degrees(FALSE, 8, 21000700), Degrees(FALSE, 47, 17000000)>>
P4 == <<Degrees(TRUE, 73, 1234567), Degrees(TRUE, 33, 7654321)>>

\* The program computes with binary floating point numbers, the model with
\* exact ones. The two differ where a tiny error decides the result, and there
\* the result is one of these: the computed value is just below the exact one
\* ("low"), equal to it ("exact"), or just above it ("high").
FloatOutcomes == {"low", "exact", "high"}

\* A number with at most eight binary places, for which every step of the
\* transform is exact in binary floating point.
ExactInBinary(value) == value.frac % (UnitsPerDegree \div 256) = 0

\* round(x, 3) of a seconds value counted in ten-thousandths: the nearest
\* thousandth; of a value half way between two the lower or the upper one, as
\* the binary number that stands for it lies below or above (the even one
\* when it is exact).
RoundMilli(u, float) ==
    LET q == u \div 10
        r == u % 10
    IN  IF r > 5 THEN q + 1
        ELSE IF r < 5 THEN q
        ELSE IF float = "high" THEN q + 1
        ELSE IF float = "low" THEN q
        ELSE IF q % 2 = 1 THEN q + 1 ELSE q

\* One axis of decimal_degrees_to_es_notation: the hemisphere letter and the
\* values of degrees, minutes and seconds_raw (in thousandths; neg_zero when
\* it is the float -0.0). Where the value is a whole number of minutes that
\* binary floating point cannot hold, the product with 60 may fall below the
\* whole number, which makes the minutes one less and the seconds 60.0, or the
\* difference to minutes / 60 may fall below zero, which rounds to -0.0.
AxisNotation(value, positive, negative, float) ==
    LET degrees == value.deg
        per_minute == UnitsPerDegree \div 60
        exact_minutes == value.frac \div per_minute
        boundary == value.frac % per_minute = 0 /\ ~ExactInBinary(value)
        minutes == IF boundary /\ float = "low" THEN exact_minutes - 1 ELSE exact_minutes
        seconds_raw == RoundMilli(value.frac - minutes * per_minute, float)
    IN  [h |-> IF value.neg /\ (value.deg > 0 \/ value.frac > 0)
               THEN negative ELSE positive,
         deg |-> degrees, min |-> minutes, msec |-> seconds_raw,
         neg_zero |-> boundary /\ float = "high"]

\* The values of both axes, for the outcomes of the floating point steps.
es_notation_values(coordinate_pair, float_north, float_east) ==
    [north |-> AxisNotation(coordinate_pair[2], "N", "S", float_north),
     east |-> AxisNotation(coordinate_pair[1], "E", "W", float_east)]

\* The transform as the serializers use it, on the vertices of the features of
\* the model, which lie on no minute boundary and half way between no two
\* thousandths, so that the three outcomes are one.
decimal_degrees_to_es_notation(coordinate_pair) ==
    es_notation_values(coordinate_pair, "exact", "exact")

\* Strings are lists of characters.
DigitChars == <<"0", "1", "2", "3", "4", "5", "6", "7", "8", "9">>

RECURSIVE Str(_)
\* str(n) of a natural number
Str(n) == IF n < 10 THEN <<DigitChars[n + 1]>> ELSE Str(n \div 10) \o <<DigitChars[(n % 10) + 1]>>

\* s.rjust(width, fillchar) and s.ljust(width, fillchar)
RJust(s, width, fillchar) ==
    IF Len(s) >= width THEN s ELSE [i \in 1..(width - Len(s)) |-> fillchar] \o s

LJust(s, width, fillchar) ==
    IF Len(s) >= width THEN s ELSE s \o [i \in 1..(width - Len(s)) |-> fillchar]

\* str(seconds_raw) of the rounded float: the whole part, the point and the
\* decimals without trailing zeros, of which there is at least one.
StrSeconds(msec, neg_zero) ==
    LET t == msec % 1000
        decimals == IF t % 100 = 0 THEN <<DigitChars[(t \div 100) + 1]>>
                    ELSE IF t % 10 = 0
                    THEN <<DigitChars[(t \div 100) + 1], DigitChars[((t \div 10) % 10) + 1]>>
                    ELSE <<DigitChars[(t \div 100) + 1], DigitChars[((t \div 10) % 10) + 1],
                           DigitChars[(t % 10) + 1]>>
    IN  IF neg_zero THEN <<"-", "0", ".", "0">>
        ELSE Str(msec \div 1000) \o <<".">> \o decimals

\* formatted_north and formatted_east: the text of one axis.
AxisText(axis) ==
    LET seconds == IF axis.msec < 10000
                   THEN <<"0">> \o StrSeconds(axis.msec, axis.neg_zero)
                   ELSE StrSeconds(axis.msec, axis.neg_zero)
    IN  <<axis.h>> \o RJust(Str(axis.deg), 3, "0") \o <<".">>
        \o RJust(Str(axis.min), 2, "0") \o <<".">> \o LJust(seconds, 6, "0")

\* return formatted_north + " " + formatted_east
NotationText(notation) == AxisText(notation.north) \o <<" ">> \o AxisText(notation.east)

\* ---------------------------------------------------------------- rule table
\* The definitions file: a rule table per category root and the colors. A
\* group name is the list of its space separated words; an attribute set is a
\* function from attribute names; a suffix's attribute set is the list of its
\* (key, value) pairs in file order, the order "for key in suffix_description"
\* visits them in.
RwyMarkAdditional ==
    << <<"wh", << <<"Color", NameColor("white")>> >> >>,
       <<"th", << <<"Group", <<"$airport", "Threshold">> >>,
                  <<"Color", NameColor("threshold")>> >> >> >>

CategoryMapping ==
    [APRON |->
        [default |-> [Group |-> <<"$airport", "Apron">>,
                      ES_Category |-> "regions", Feature_Type |-> "Polygon",
                      Color |-> NameColor("apron"), Priority |-> 2],
         suffixes |-> [gr |-> << <<"Group", <<"$airport", "Grass">> >>,
                                 <<"Color", HexColor(1715004)>>,
                                 <<"Priority", 1>> >>]],
     BLD |->
        [default |-> [Group |-> <<"$airport", "Building">>,
                      ES_Category |-> "regions", Feature_Type |-> "Polygon",
                      Color |-> NameColor("building"), Priority |-> 2],
         suffixes |-> [x \in {} |-> <<>>]],
     GRS |->
        [default |-> [Group |-> <<"$airport", "Grass">>,
                      ES_Category |-> "regions", Feature_Type |-> "Polygon",
                      Color |-> NameColor("grass")],
         suffixes |-> [x \in {} |-> <<>>]],
     RWY |->
        [default |-> [Group |-> <<"$airport", "Runway">>,
                      ES_Category |-> "regions", Feature_Type |-> "Polygon",
                      Color |-> NameColor("runway"), Priority |-> 3],
         suffixes |-> [CL |-> << <<"Group", <<"$airport", "Centerline", "$1">> >>,
                                 <<"ES Category", "geo">>,
                                 <<"Feature Type", "Line">> >>,
                       MRK |-> << <<"Additional Suffixes", RwyMarkAdditional>>,
                                  <<"Group", <<"$airport", "Marking">> >>,
                                  <<"ES Category", "geo">>,
                                  <<"Feature Type", "Line">> >>]],
     TWY |->
        [default |-> [Group |-> <<"$airport", "TWY">>,
                      ES_Category |-> "geo", Feature_Type |-> "Line",
                      Color |-> NameColor("taxiway")],
         suffixes |-> [CL |-> << <<"Group", <<"$airport", "Taxiway", "Centerline">> >> >>,
                       LBL |-> << <<"Group", <<"$airport", "Labels">> >>,
                                  <<"ES Category", "freetext">>,
                                  <<"Feature Type", "Point">> >>]],
     REF |->
        [default |-> [Group |-> <<"$airport", "Reference">>,
                      ES_Category |-> "geo", Feature_Type |-> "Line",
                      Color |-> NameColor("ref"), Ignore |-> TRUE],
         suffixes |-> [x \in {} |-> <<>>]]]

\* The attribute names of the definitions file, as the model's record fields.
AttrName(key) ==
    CASE key = "ES Category" -> "ES_Category"
      [] key = "Feature Type" -> "Feature_Type"
      [] OTHER -> key

\* read_definitions(definitions_file): the content of the definitions file.
DefinitionsFile ==
    [Category_Mapping |-> CategoryMapping,
     Colors |-> [Hole_Color |-> NameColor("grass"),
                 Additional_Colors |-> << [Tag |-> "gr", Color |-> NameColor("grass")] >>,
                 Sector_File_Colors |-> <<"apron", "building", "grass", "runway", "taxiway">>]]

\* definitions = read_definitions(definitions_file): the global that rule
\* resolution, the color resolution and the serializers read.
VARIABLE definitions

\* ---------------------------------------------------------------- rule resolution
\* search("([0-3]{1}[0-9]{1}[LCR]?)", segment): the segments of the model's
\* tags that hold a digit 0..3 followed by a digit ("5", "zz", "N" and the
\* names of the suffixes hold none).
RunwaySegments == {"28", "10L", "16"}

MatchesRunway(segment) == segment \in RunwaySegments

\* The segments whose text starts with "dis", which make "_dis" a substring of
\* the tag when they follow the root.
DisSegments == {"dis", "disabled"}

\* str.replace on a group name: every word equal to token becomes value.
Replace(group, token, value) ==
    [i \in DOMAIN group |-> IF group[i] = token THEN value ELSE group[i]]

\* output_object[key] = value
SetAttr(obj, key, value) ==
    [k \in DOMAIN obj \cup {AttrName(key)} |->
        IF k = AttrName(key) THEN value ELSE obj[k]]

Last(s) == s[Len(s)]

InList(x, s) == \E i \in DOMAIN s : s[i] = x

RECURSIVE ApplyOverrides(_, _, _)
\* for additional_key in table: output_object[additional_key] = table[additional_key]
ApplyOverrides(obj, pairs, i) ==
    IF i > Len(pairs) THEN obj
    ELSE ApplyOverrides(SetAttr(obj, pairs[i][1], pairs[i][2]), pairs, i + 1)

RECURSIVE ApplyAdditional(_, _, _, _)
\* for additional_suffix in suffix_description["Additional Suffixes"]
ApplyAdditional(obj, table, split_cat, i) ==
    IF i > Len(table) THEN obj
    ELSE ApplyAdditional(
            IF InList(table[i][1], split_cat)
            THEN ApplyOverrides(obj, table[i][2], 1)
            ELSE obj,
            table, split_cat, i + 1)

AdditionalOf(suffix_description) ==
    LET i == CHOOSE j \in DOMAIN suffix_description :
                suffix_description[j][1] = "Additional Suffixes"
    IN  suffix_description[i][2]

RECURSIVE ApplySuffix(_, _, _, _)
\* for key in suffix_description, on st = [obj, warn]
ApplySuffix(st, suffix_description, split_cat, i) ==
    IF i > Len(suffix_description) THEN st
    ELSE
        LET key == suffix_description[i][1]
            suffix == split_cat[2]
            next ==
                IF key # "Additional Suffixes"
                THEN LET set == SetAttr(st.obj, key, suffix_description[i][2])
                     IN  IF Len(split_cat) > 2
                         THEN IF MatchesRunway(split_cat[3])
                              THEN [obj |-> [set EXCEPT !.Group =
                                                Replace(set.Group, "$1", Last(split_cat))],
                                    warn |-> st.warn]
                              ELSE [obj |-> set,
                                    warn |-> st.warn \cup {"Unmappable additional suffix"}]
                         ELSE [obj |-> set, warn |-> st.warn]
                ELSE IF Len(split_cat) > 2
                THEN IF ~MatchesRunway(suffix)
                     THEN [obj |-> ApplyAdditional(st.obj, AdditionalOf(suffix_description),
                                                   split_cat, 1),
                           warn |-> st.warn]
                     ELSE [obj |-> [st.obj EXCEPT !.Group =
                                        Replace(st.obj.Group, "$1", Last(split_cat))],
                           warn |-> st.warn]
                ELSE st
        IN  ApplySuffix(next, suffix_description, split_cat, i + 1)

NoObject == [x \in {} |-> 0]

\* Mutant of SuffixKnown: the suffix is looked for among the default attributes.
SuffixKnownInDefault(mapped_object, suffix) == suffix \in DOMAIN mapped_object.default

\* The check of the first suffix segment against the root's suffix table.
SuffixKnown(mapped_object, suffix) == suffix \in DOMAIN mapped_object.suffixes

\* category_mapping: status "exit" is sys.exit(-1), "ok" returns obj.
category_mapping(category, airport) ==
    IF category = NoneCat
    THEN [status |-> "exit", obj |-> NoObject, warn |-> {}]
    ELSE
        LET split_cat == category
            main_category == split_cat[1]
        IN  IF main_category \notin DOMAIN definitions.Category_Mapping
            THEN [status |-> "exit", obj |-> NoObject, warn |-> {}]
            ELSE
                LET mapped_object == definitions.Category_Mapping[main_category]
                    output_object == mapped_object.default
                IN  IF Len(split_cat) > 1
                    THEN IF ~SuffixKnown(mapped_object, split_cat[2])
                         THEN [status |-> "exit", obj |-> NoObject, warn |-> {}]
                         ELSE
                            LET st == ApplySuffix([obj |-> output_object, warn |-> {}],
                                                  mapped_object.suffixes[split_cat[2]],
                                                  split_cat, 1)
                            IN  [status |-> "ok",
                                 obj |-> [st.obj EXCEPT !.Group =
                                            Replace(st.obj.Group, "$airport", airport)],
                                 warn |-> st.warn]
                    ELSE [status |-> "ok",
                          obj |-> [output_object EXCEPT !.Group =
                                     Replace(output_object.Group, "$airport", airport)],
                          warn |-> {}]

\* ---------------------------------------------------------------- colors
\* search("#[0-9a-fA-F]{6}", color)
IsHex(color) == color.t = "hex"

\* search("^[a-z]{2}$", color)
IsTwoLetterTag(color) == color.t = "tag"

\* str.isdecimal()
IsDecimal(color) == color.t = "dec"

\* es_color_code: "#RRGGBB" to the decimal string of blue*65536 + green*256 + red.
es_color_code(color_hex) ==
    LET red == color_hex.n \div 65536
        green == (color_hex.n \div 256) % 256
        blue == color_hex.n % 256
    IN  DecColor(blue * 65536 + green * 256 + red)

\* The color token of both serializers: "COLOR_" + color unless color.isdecimal().
ColorToken(color) == [prefixed |-> ~IsDecimal(color), color |-> color]

RECURSIVE LookupTag(_, _, _, _)
\* for def_color in definitions["Colors"]["Additional Colors"]
LookupTag(current, color, table, i) ==
    IF i > Len(table) THEN current
    ELSE LookupTag(IF table[i].Tag = color.s THEN table[i].Color ELSE current,
                   color, table, i + 1)

\* The color a feature is serialized with: the feature's own color over the
\* descriptor's default one.
ResolveColor(feature_object, color) ==
    IF color # NoneColor
    THEN IF ~IsHex(color)
         THEN IF IsTwoLetterTag(color)
              THEN LookupTag(feature_object.Color, color,
                             definitions.Colors.Additional_Colors, 1)
              ELSE color
         ELSE es_color_code(color)
    ELSE IF IsHex(feature_object.Color)
    THEN es_color_code(feature_object.Color)
    ELSE feature_object.Color

\* ---------------------------------------------------------------- geometry
\* How deep the coordinate tree of a geometry kind nests: 1 is one (east,
\* north) pair, 2 a list of pairs, and so on.
Depth(feature_type) ==
    CASE feature_type = "Point" -> 1
      [] feature_type \in {"LineString", "MultiPoint"} -> 2
      [] feature_type \in {"Polygon", "MultiLineString"} -> 3
      [] feature_type = "MultiPolygon" -> 4

Extracted(status, coordinates, point, warn) ==
    [status |-> status, coordinates |-> coordinates, point |-> point, warn |-> warn]

\* point_coordinates = (0.0, 0.0)
DefaultPoint == [d |-> 1, v |-> <<Degrees(FALSE, 0, 0), Degrees(FALSE, 0, 0)>>]

\* The extraction of a declared Point from the geometry: the value handed on
\* as point_coordinates, with the depth of what it holds.
PointOf(feature_object, feature_type) ==
    LET C == feature_object.Coordinates
    IN  IF feature_type # "Point"
        THEN IF feature_type = "MultiPolygon"
             THEN IF Len(C[1]) = 0
                  THEN Extracted("raise", <<>>, DefaultPoint, {"only the first coordinate"})
                  ELSE Extracted("ok", <<>>, [d |-> Depth(feature_type) - 2, v |-> C[1][1]],
                                 {"only the first coordinate"})
             ELSE IF feature_type = "MultiLineString"
             THEN Extracted("ok", <<>>, [d |-> Depth(feature_type) - 1, v |-> C[1]],
                            {"only the first coordinate"})
             ELSE Extracted("ok", <<>>, DefaultPoint, {})
        ELSE Extracted("ok", <<>>, [d |-> Depth(feature_type), v |-> C], {})

\* The extraction of a declared Line from the geometry: a list of lines.
LineOf(feature_object, feature_type) ==
    LET C == feature_object.Coordinates
    IN  IF feature_type # "MultiLineString"
        THEN IF feature_type = "MultiPolygon"
             THEN Extracted("ok", C[1], DefaultPoint, {"holes may be lost"})
             ELSE IF feature_type = "LineString"
             THEN Extracted("ok", <<C>>, DefaultPoint, {})
             ELSE Extracted("exit", <<>>, DefaultPoint, {})
        ELSE Extracted("ok", C, DefaultPoint, {})

\* The first part of both serializers: the coordinate list of the feature for
\* its declared shape ("Feature Type") and its geometry kind (feature_type).
\* status "exit" is sys.exit(-1), "raise" an uncaught IndexError.
ExtractCoordinates(feature_object, feature_type) ==
    LET C == feature_object.Coordinates
    IN  IF Len(C) = 0
        THEN Extracted("exit", <<>>, DefaultPoint, {})
        ELSE IF feature_object.Feature_Type = "Polygon"
        THEN IF ~(feature_type = "MultiPolygon" \/ feature_type = "Polygon")
             THEN Extracted("exit", <<>>, DefaultPoint, {})
             ELSE IF feature_type = "MultiPolygon"
             THEN Extracted("ok", C[1], DefaultPoint, {})
             ELSE Extracted("ok", C, DefaultPoint, {})
        ELSE IF feature_object.Feature_Type = "Line"
        THEN LineOf(feature_object, feature_type)
        ELSE IF feature_object.Feature_Type = "Point"
        THEN PointOf(feature_object, feature_type)
        ELSE Extracted("exit", <<>>, DefaultPoint, {})

\* decimal_degrees_to_es_notation reads coordinate_pair[0] and [1] as numbers:
\* it returns for one pair of numbers and raises for anything else.
CanTransform(point) == point.d = 1 /\ Len(point.v) = 2

\* ---------------------------------------------------------------- text
\* A text is the list of its lines; a line is a record of its parts.
RECURSIVE Flatten(_)
Flatten(texts) ==
    IF Len(texts) = 0 THEN <<>> ELSE Head(texts) \o Flatten(Tail(texts))

Formatted(status, val, point, warn) ==
    [status |-> status, val |-> val, point |-> point, warn |-> warn]

\* ---------------------------------------------------------------- primary serializer
\* Mutant of EsRingTail: the slice [1:] keeps the closing vertex.
EsRingTailKeepsClosing(current_coords_list) ==
    SubSeq(current_coords_list, 2, Len(current_coords_list))

\* for coordinate_pair in current_coords_list[1:-1]
EsRingTail(current_coords_list) ==
    SubSeq(current_coords_list, 2, Len(current_coords_list) - 1)

\* The block of one ring of a region: the name line, the line of the color
\* and the first vertex, a line per further vertex.
EsRingBlock(group, color, current_coords_list) ==
    << [k |-> "REGIONNAME", group |-> group],
       [k |-> "first", color |-> color,
        coord |-> decimal_degrees_to_es_notation(current_coords_list[1])] >>
    \o [j \in DOMAIN EsRingTail(current_coords_list) |->
            [k |-> "coord",
             coord |-> decimal_degrees_to_es_notation(EsRingTail(current_coords_list)[j])]]

\* Mutant of EsRegionText: the rings after the first keep the color of the feature.
EsRegionTextOneColor(feature_object, coordinates) ==
    Flatten([i \in DOMAIN coordinates |->
                EsRingBlock(feature_object.Group, ColorToken(feature_object.Color),
                            coordinates[i])])

\* color = "COLOR_" + definitions["Colors"]["Hole Color"]
HoleColorToken == [prefixed |-> TRUE, color |-> definitions.Colors.Hole_Color]

\* The blocks of the rings: the first with the color of the feature, the
\* others with the hole color.
EsRegionText(feature_object, coordinates) ==
    Flatten([i \in DOMAIN coordinates |->
                EsRingBlock(feature_object.Group,
                            IF i = 1 THEN ColorToken(feature_object.Color)
                            ELSE HoleColorToken,
                            coordinates[i])])

\* Mutant of EsRegionDict: the entry is built without its priority.
EsRegionDictNoPriority(feature_object, coordinates) ==
    [Formatted_Region |-> EsRegionText(feature_object, coordinates)]

\* The region's entry: the priority and the text. Reached with a priority.
EsRegionDict(feature_object, coordinates) ==
    [Priority |-> feature_object.Priority,
     Formatted_Region |-> EsRegionText(feature_object, coordinates)]

\* if "Priority" in feature_object
HasPriority(feature_object) == "Priority" \in DOMAIN feature_object

\* The lines of one line of a geo feature: one per pair of neighbours.
EsGeoElement(group, color, element) ==
    << [k |-> "geo_first", group |-> group,
        a |-> decimal_degrees_to_es_notation(element[1]),
        b |-> decimal_degrees_to_es_notation(element[2]), color |-> color] >>
    \o [i \in 1..(Len(element) - 2) |->
            [k |-> "geo_segment",
             a |-> decimal_degrees_to_es_notation(element[i + 1]),
             b |-> decimal_degrees_to_es_notation(element[i + 2]), color |-> color]]

EsGeoText(feature_object, coordinates) ==
    Flatten([i \in DOMAIN coordinates |->
                EsGeoElement(feature_object.Group, ColorToken(feature_object.Color),
                             coordinates[i])])

\* Mutant of LabelRaises: the label is written through str(), which takes None.
LabelRaisesNever(label) == FALSE

\* "..." + feature_object["Label"] raises a TypeError for the label None.
LabelRaises(label) == label = NoneStr

\* format_feature_for_es: status "ok" returns val, "exit" is sys.exit(-1),
\* "raise" an uncaught IndexError or TypeError.
format_feature_for_es(feature_object, feature_type) ==
    LET x == ExtractCoordinates(feature_object, feature_type)
        coordinates == x.coordinates
    IN  IF x.status # "ok"
        THEN Formatted(x.status, <<>>, x.point, x.warn)
        ELSE IF feature_object.Feature_Type = "Point"
                /\ feature_object.ES_Category = "freetext"
        THEN IF "Label" \in DOMAIN feature_object
             THEN IF ~CanTransform(x.point) \/ LabelRaises(feature_object.Label)
                  THEN Formatted("raise", <<>>, x.point, x.warn)
                  ELSE Formatted("ok",
                            << [k |-> "freetext",
                                coord |-> decimal_degrees_to_es_notation(x.point.v),
                                group |-> feature_object.Group,
                                label |-> feature_object.Label] >>,
                            x.point, x.warn)
             ELSE Formatted("exit", <<>>, x.point, x.warn)
        ELSE IF feature_object.ES_Category = "regions"
        THEN IF HasPriority(feature_object)
             THEN IF \E i \in DOMAIN coordinates : Len(coordinates[i]) = 0
                  THEN Formatted("raise", <<>>, x.point, x.warn)
                  ELSE Formatted("ok", EsRegionDict(feature_object, coordinates),
                                 x.point, x.warn)
             ELSE Formatted("exit", <<>>, x.point, x.warn)
        ELSE IF feature_object.ES_Category = "geo"
        THEN IF \E i \in DOMAIN coordinates : Len(coordinates[i]) < 2
             THEN Formatted("raise", <<>>, x.point, x.warn)
             ELSE Formatted("ok", EsGeoText(feature_object, coordinates), x.point, x.warn)
        ELSE Formatted("exit", <<>>, x.point, x.warn)

\* ---------------------------------------------------------------- secondary serializer
\* A bare "\n" between two pieces of text.
Newline == [k |-> "newline"]

\* The block of one ring of a region: the color line and a line per vertex.
GngRingBlock(color, current_coords_list) ==
    << [k |-> "color", color |-> color] >>
    \o [j \in DOMAIN current_coords_list |->
            [k |-> "coord",
             coord |-> decimal_degrees_to_es_notation(current_coords_list[j])]]

GngRegionText(feature_object, coordinates) ==
    Flatten([i \in DOMAIN coordinates |->
                GngRingBlock(IF i = 1 THEN ColorToken(feature_object.Color)
                             ELSE ColorToken(NameColor("AoRground1")),
                             coordinates[i])])

GngRegionDict(feature_object, coordinates) ==
    [Priority |-> feature_object.Priority,
     RegionName |-> feature_object.Group,
     Formatted_Region |-> GngRegionText(feature_object, coordinates)]

\* Mutant of GngGeoElement: the loop of the primary serializer, which starts
\* at the second vertex, without the line before it.
GngGeoElementFromSecond(color, element) ==
    [i \in 1..(Len(element) - 2) |->
        [k |-> "geo_segment",
         a |-> decimal_degrees_to_es_notation(element[i + 1]),
         b |-> decimal_degrees_to_es_notation(element[i + 2]), color |-> color]]

\* for i in range(len(element) - 1)
GngGeoElement(color, element) ==
    [i \in 1..(Len(element) - 1) |->
        [k |-> "geo_segment",
         a |-> decimal_degrees_to_es_notation(element[i]),
         b |-> decimal_degrees_to_es_notation(element[i + 1]), color |-> color]]

\* Group[:4] and the words of Group[5:], for a four letter airport code.
GroupAirport(group) == Head(group)
GroupRest(group) == Tail(group)

GngGeoDict(feature_object, coordinates) ==
    [Group |-> feature_object.Group,
     Airport |-> GroupAirport(feature_object.Group),
     Category |-> IF GroupRest(feature_object.Group) = <<>> THEN ""
                  ELSE Head(GroupRest(feature_object.Group)),
     Name |-> IF GroupRest(feature_object.Group) = <<>> THEN <<>>
              ELSE Tail(GroupRest(feature_object.Group)),
     Code |-> Flatten([i \in DOMAIN coordinates |->
                        GngGeoElement(ColorToken(feature_object.Color), coordinates[i])])]

GngFreetextDict(feature_object, point_coordinates) ==
    [Group |-> feature_object.Group,
     Airport |-> GroupAirport(feature_object.Group),
     Labelgroup |-> GroupRest(feature_object.Group),
     Code |-> << [k |-> "freetext",
                  coord |-> decimal_degrees_to_es_notation(point_coordinates),
                  label |-> feature_object.Label] >>]

\* format_feature_for_gng: status as for format_feature_for_es.
format_feature_for_gng(feature_object, feature_type) ==
    LET x == ExtractCoordinates(feature_object, feature_type)
        coordinates == x.coordinates
    IN  IF x.status # "ok"
        THEN Formatted(x.status, <<>>, x.point, x.warn)
        ELSE IF feature_object.Feature_Type = "Point"
                /\ feature_object.ES_Category = "freetext"
        THEN IF "Label" \in DOMAIN feature_object
             THEN IF ~CanTransform(x.point) \/ LabelRaises(feature_object.Label)
                  THEN Formatted("raise", <<>>, x.point, x.warn)
                  ELSE Formatted("ok", GngFreetextDict(feature_object, x.point.v),
                                 x.point, x.warn)
             ELSE Formatted("exit", <<>>, x.point, x.warn)
        ELSE IF feature_object.ES_Category = "regions"
        THEN IF HasPriority(feature_object)
             THEN Formatted("ok", GngRegionDict(feature_object, coordinates),
                            x.point, x.warn)
             ELSE Formatted("exit", <<>>, x.point, x.warn)
        ELSE IF feature_object.ES_Category = "geo"
        THEN Formatted("ok", GngGeoDict(feature_object, coordinates), x.point, x.warn)
        ELSE Formatted("exit", <<>>, x.point, x.warn)

\* ---------------------------------------------------------------- sorting
RECURSIVE InsertDescending(_, _)
\* Mutant of InsertByPriority: the comparison is turned around.
InsertDescending(sorted_list, x) ==
    IF Len(sorted_list) = 0 THEN <<x>>
    ELSE IF x.Priority > Head(sorted_list).Priority THEN <<x>> \o sorted_list
    ELSE <<Head(sorted_list)>> \o InsertDescending(Tail(sorted_list), x)

RECURSIVE InsertBeforeEqual(_, _)
\* Mutant of InsertByPriority: x goes before the entries of its own priority.
InsertBeforeEqual(sorted_list, x) ==
    IF Len(sorted_list) = 0 THEN <<x>>
    ELSE IF x.Priority <= Head(sorted_list).Priority THEN <<x>> \o sorted_list
    ELSE <<Head(sorted_list)>> \o InsertBeforeEqual(Tail(sorted_list), x)

RECURSIVE InsertByPriority(_, _)
\* x goes behind every entry whose priority is not above its own.
InsertByPriority(sorted_list, x) ==
    IF Len(sorted_list) = 0 THEN <<x>>
    ELSE IF x.Priority < Head(sorted_list).Priority THEN <<x>> \o sorted_list
    ELSE <<Head(sorted_list)>> \o InsertByPriority(Tail(sorted_list), x)

RECURSIVE SortFrom(_, _, _)
SortFrom(sorted_list, list, i) ==
    IF i > Len(list) THEN sorted_list
    ELSE SortFrom(InsertByPriority(sorted_list, list[i]), list, i + 1)

\* sorted(list, key=lambda x: x["Priority"]): ascending and stable.
SortedByPriority(list) == SortFrom(<<>>, list, 1)

\* ---------------------------------------------------------------- input
\* feature["geometry"] is None
NoGeometry == [type |-> "None", coordinates |-> <<>>]

Feature(type, coordinates, apt, lbl, clr, cat) ==
    [geometry |-> [type |-> type, coordinates |-> coordinates],
     properties |-> [apt |-> apt, lbl |-> lbl, clr |-> clr, cat |-> cat]]

Outer == <<P1, P2, P3, P1>>
Hole == <<P2, P3, P4, P2>>
Small == <<P1, P4, P1>>
Shortest == <<P3, P3>>

\* The features the input files may hold, in any order and number (lists, as
\* their coordinate trees differ in shape).
RegionInputs ==
    << Feature("Polygon", <<Outer>>, "LSZH", NoneStr, NoneColor, <<"APRON">>),
      Feature("Polygon", <<Small>>, "LSZH", NoneStr, NoneColor, <<"APRON">>),
      Feature("Polygon", <<Outer, Hole>>, "LSZH", NoneStr, NoneColor, <<"BLD">>),
      Feature("MultiPolygon", << <<Outer, Hole>>, <<Small>> >>, "LSZH", NoneStr,
              NoneColor, <<"APRON", "gr">>),
      Feature("Polygon", <<Shortest>>, "LSGG", "x", HexColor(1715004), <<"RWY">>),
      Feature("Polygon", <<Outer, Hole, Small>>, "LSZH", NoneStr, HexColor(255), <<"BLD">>),
      Feature("Polygon", <<Outer>>, "LSZH", NoneStr, NoneColor, <<"GRS">>),
      Feature("Polygon", <<Small>>, "LSZH", NoneStr, TagColor("zz"), <<"APRON", "gr">>),
      Feature("MultiPolygon", << <<>> >>, "LSZH", NoneStr, NoneColor, <<"APRON">>),
      Feature("Polygon", << <<>> >>, "LSZH", NoneStr, NoneColor, <<"APRON">>),
      Feature("Polygon", <<>>, "LSZH", NoneStr, NoneColor, <<"APRON">>),
      Feature("LineString", <<P1, P2>>, "LSZH", NoneStr, NoneColor, <<"APRON">>) >>

GeoInputs ==
    << Feature("LineString", <<P1, P2, P3>>, "LSZH", NoneStr, NoneColor, <<"TWY">>),
      Feature("MultiLineString", << <<P1, P2>>, <<P3, P4, P1>> >>, "LSZH", NoneStr,
              TagColor("gr"), <<"TWY", "CL">>),
      Feature("MultiPolygon", << <<Outer, Hole>>, <<Small>> >>, "LSZH", NoneStr,
              NoneColor, <<"TWY">>),
      Feature("MultiPolygon", << <<Outer>> >>, "LSZH", NoneStr, NoneColor, <<"TWY">>),
      Feature("Point", P1, "LSZH", NoneStr, NoneColor, <<"TWY">>),
      Feature("Polygon", <<Outer>>, "LSZH", NoneStr, NoneColor, <<"TWY">>),
      Feature("LineString", <<P1, P2>>, "LSZH", NoneStr, NoneColor, <<"RWY", "CL", "28">>),
      Feature("LineString", <<P2, P3>>, "LSZH", NoneStr, NoneColor, <<"RWY", "MRK", "wh">>),
      Feature("LineString", <<P2, P3>>, "LSZH", NoneStr, NoneColor,
              <<"RWY", "MRK", "zz", "th">>),
      Feature("LineString", <<P1, P3>>, "LSZH", NoneStr, NoneColor, <<"RWY", "CL", "zz">>),
      Feature("LineString", <<P1, P3>>, "LSZH", NoneStr, NoneColor, <<"RWY", "CL">>),
      Feature("LineString", <<P1, P3>>, "LSZH", NoneStr, NoneColor,
              <<"RWY", "CL", "28", "N">>),
      Feature("LineString", <<P1, P3>>, "LSZH", NoneStr, NoneColor, <<"RWY", "CL", "5">>),
      Feature("LineString", <<P2, P3>>, "LSZH", NoneStr, NoneColor,
              <<"RWY", "MRK", "28", "th">>),
      Feature("LineString", <<P2, P3>>, "LSZH", NoneStr, NoneColor, <<"RWY", "MRK", "zz">>),
      Feature("MultiLineString", << <<>> >>, "LSZH", NoneStr, NoneColor, <<"TWY">>),
      Feature("LineString", <<P1, P2>>, "LSZH", NoneStr, NoneColor, <<"REF">>) >>

FreetextInputs ==
    << Feature("Point", P1, "LSZH", "A", NoneColor, <<"TWY", "LBL">>),
      Feature("Point", P4, "LSZH", "B", NoneColor, <<"TWY", "LBL">>),
      Feature("Point", P1, "LSZH", NoneStr, NoneColor, <<"TWY", "LBL">>),
      Feature("MultiPolygon", << <<Outer>> >>, "LSZH", "A", NoneColor, <<"TWY", "LBL">>),
      Feature("MultiLineString", << <<P1, P2>> >>, "LSZH", "A", NoneColor, <<"TWY", "LBL">>),
      Feature("LineString", <<P1, P2>>, "LSZH", "A", NoneColor, <<"TWY", "LBL">>),
      Feature("Polygon", <<Outer>>, "LSZH", "A", NoneColor, <<"TWY", "LBL">>) >>

SkippedInputs ==
    << [geometry |-> NoGeometry,
       properties |-> [apt |-> "LSZH", lbl |-> NoneStr, clr |-> NoneColor, cat |-> <<"APRON">>]],
      Feature("Polygon", <<Outer>>, NoneStr, NoneStr, NoneColor, <<"APRON">>),
      Feature("Polygon", <<Outer>>, "LSZH", NoneStr, NoneColor, <<"APRON", "dis">>),
      Feature("Polygon", <<Outer>>, "LSZH", NoneStr, NoneColor, NoneCat),
      Feature("Polygon", <<Outer>>, "LSZH", NoneStr, NoneColor, <<"FENCE">>),
      Feature("LineString", <<P1, P2>>, "LSZH", NoneStr, NoneColor, <<"TWY", "XX">>),
      Feature("Polygon", <<Outer>>, "LSZH", NoneStr, NoneColor, <<"APRON", "CL">>),
      Feature("Polygon", <<Outer>>, "LSZH", NoneStr, NoneColor, <<"28">>),
      Feature("Polygon", <<Outer>>, NoneStr, NoneStr, NoneColor, <<"FENCE">>),
      Feature("Polygon", <<Outer>>, NoneStr, NoneStr, NoneColor, NoneCat),
      Feature("Polygon", <<Outer>>, "LSZH", NoneStr, NoneColor, <<"FENCE", "dis">>),
      Feature("LineString", <<P1, P2>>, "LSZH", NoneStr, NoneColor, <<"TWY", "XX", "disabled">>),
      Feature("LineString", <<>>, "LSZH", NoneStr, NoneColor, <<"REF">>),
      Feature("Point", P1, "LSZH", NoneStr, NoneColor, <<"REF">>) >>

FeatureInputs == RegionInputs \o GeoInputs \o FreetextInputs \o SkippedInputs

\* ---------------------------------------------------------------- state
VARIABLES
    pc,                     \* the statement of the main program that runs next
    exit_code,              \* the exit status, once pc = "exited"
    nread,                  \* how many features of the input were read
    es_data,                \* the accumulators of the primary dialect
    gng_data,               \* the accumulators of the secondary dialect
    colors_used,            \* the recorded colors
    files,                  \* the output files written so far
    logged,                 \* the warnings of the last step
    feature,                \* the record of the last loop iteration
    step,                   \* where the last loop iteration ended
    feature_object,         \* its descriptor, once resolved
    point_coordinates,      \* the value its serializer took for its point
    formatted_feature,      \* what format_feature_for_es returned for it
    gng_formatted_feature,  \* what format_feature_for_gng returned for it
    accepted_regions,       \* history: the region entries in the order appended
    resolved,               \* history: the calls of category_mapping that returned
    coordinate_pair,        \* the argument of a call of the coordinate transform
    es_notation             \* the text the call returned

vars == <<definitions, pc, exit_code, nread, es_data, gng_data, colors_used, files, logged,
          feature, step, feature_object, point_coordinates, formatted_feature,
          gng_formatted_feature, accepted_regions, resolved, coordinate_pair,
          es_notation>>

Init ==
    /\ definitions = DefinitionsFile
    /\ pc = "read_folder"
    /\ exit_code = 0
    /\ nread = 0
    /\ es_data = [geo |-> [Output_String |-> <<>>, Features |-> <<>>],
                  freetext |-> [Output_String |-> <<>>, Features |-> <<>>],
                  regions |-> [Output_String |-> <<>>, Features |-> <<>>]]
    /\ gng_data = [geo |-> [Output_String |-> <<>>, Features |-> <<>>],
                   freetext |-> [Output_String |-> <<>>, Features |-> <<>>],
                   regions |-> [Output_String |-> <<>>, Features |-> <<>>]]
    /\ colors_used = <<>>
    /\ files = {}
    /\ logged = {}
    /\ feature = [geometry |-> NoGeometry,
                  properties |-> [apt |-> NoneStr, lbl |-> NoneStr,
                                  clr |-> NoneColor, cat |-> NoneCat]]
    /\ step = "start"
    /\ feature_object = NoObject
    /\ point_coordinates = DefaultPoint
    /\ formatted_feature = <<>>
    /\ gng_formatted_feature = <<>>
    /\ accepted_regions = <<>>
    /\ resolved = <<>>
    /\ coordinate_pair = P1
    /\ es_notation = <<>>

\* ---------------------------------------------------------------- the feature loop
\* Mutant of DisabledCheck: a missing category tag is skipped like a disabled one.
DisabledCheckSkipsNone(category) ==
    IF category = NoneCat THEN "continue"
    ELSE IF \E i \in 2..Len(category) : category[i] \in DisSegments THEN "continue"
    ELSE "pass"

\* if "_dis" in category: a TypeError when category is None.
DisabledCheck(category) ==
    IF category = NoneCat THEN "raise"
    ELSE IF \E i \in 2..Len(category) : category[i] \in DisSegments THEN "continue"
    ELSE "pass"

\* Mutant of Ignored: the ignore flag of the descriptor is never honoured.
IgnoredNever(obj) == FALSE

\* if "Ignore" in feature_object: if feature_object["Ignore"]: continue
Ignored(obj) == "Ignore" \in DOMAIN obj /\ obj.Ignore

\* The descriptor with the label, the coordinates and the resolved color.
Prepared(obj, f) ==
    LET with_label == SetAttr(obj, "Label", f.properties.lbl)
        with_coordinates == SetAttr(with_label, "Coordinates", f.geometry.coordinates)
    IN  [with_coordinates EXCEPT !.Color = ResolveColor(with_coordinates, f.properties.clr)]

\* if not feature_object["Color"] in colors_used: colors_used.append(...)
RecordColor(colors, color) ==
    IF InList(color, colors) THEN colors ELSE Append(colors, color)

\* The dict of the secondary accumulators: the list of its (key, value) entries
\* in insertion order.
HasKey(entries, key) == \E i \in DOMAIN entries : entries[i].key = key
KeyIndex(entries, key) == CHOOSE i \in DOMAIN entries : entries[i].key = key

\* Mutant of GngAppendRegion: a region of a layer that exists takes the place
\* of the entries of the layer.
GngAppendRegionReplaces(entries, gng_feature) ==
    IF HasKey(entries, gng_feature.RegionName)
    THEN [entries EXCEPT ![KeyIndex(entries, gng_feature.RegionName)].val =
                <<gng_feature>>]
    ELSE Append(entries, [key |-> gng_feature.RegionName, val |-> <<gng_feature>>])

\* The append of an accepted region to the secondary accumulator.
GngAppendRegion(entries, gng_feature) ==
    IF HasKey(entries, gng_feature.RegionName)
    THEN [entries EXCEPT ![KeyIndex(entries, gng_feature.RegionName)].val =
                Append(@, gng_feature)]
    ELSE Append(entries, [key |-> gng_feature.RegionName, val |-> <<gng_feature>>])

\* The append of an accepted geo line or freetext to the secondary accumulator.
GngAppendCode(entries, gng_feature) ==
    IF HasKey(entries, gng_feature.Group)
    THEN [entries EXCEPT ![KeyIndex(entries, gng_feature.Group)].val.Code =
                @ \o <<Newline>> \o gng_feature.Code]
    ELSE Append(entries, [key |-> gng_feature.Group, val |-> gng_feature])

\* Mutant of CopiedDefault: the descriptor is the default attribute set of the
\* rule table itself, so what is written to the descriptor is written to the table.
AliasedDefault(table, main_category, written) ==
    [table EXCEPT !.Category_Mapping[main_category].default = written]

\* output_object = dict(mapped_object["default"]): the rule table after the
\* writes of category_mapping and of the loop to the descriptor, which is a
\* copy that shares no attribute set with the table.
CopiedDefault(table, main_category, written) == table

\* Where one iteration of the loop over data["features"] ends for feature f
\* before the serializers run.
EarlyStep(f) ==
    IF f.geometry.type = NoGeometry.type THEN "continue_geometry"
    ELSE IF f.properties.apt = NoneStr THEN "continue_airport"
    ELSE IF DisabledCheck(f.properties.cat) = "raise" THEN "raise_category"
    ELSE IF DisabledCheck(f.properties.cat) = "continue" THEN "continue_disabled"
    ELSE IF category_mapping(f.properties.cat, f.properties.apt).status = "exit"
    THEN "exit_mapping"
    ELSE IF Ignored(category_mapping(f.properties.cat, f.properties.apt).obj)
    THEN "continue_ignore"
    ELSE "format"

\* One iteration of the loop of read_geo_json_file, for the next feature f of
\* the input.
ReadFeature(f) ==
    /\ pc = "read_folder"
    /\ nread < MaxFeatures
    /\ nread' = nread + 1
    /\ feature' = f
    /\ UNCHANGED <<files, coordinate_pair, es_notation>>
    /\ definitions' =
            IF EarlyStep(f) = "format"
            THEN CopiedDefault(definitions, f.properties.cat[1],
                     Prepared(category_mapping(f.properties.cat, f.properties.apt).obj, f))
            ELSE IF EarlyStep(f) = "continue_ignore"
            THEN CopiedDefault(definitions, f.properties.cat[1],
                     category_mapping(f.properties.cat, f.properties.apt).obj)
            ELSE definitions
    /\ resolved' =
            IF EarlyStep(f) \in {"format", "continue_ignore"}
            THEN Append(resolved,
                        [cat |-> f.properties.cat, apt |-> f.properties.apt,
                         obj |-> category_mapping(f.properties.cat, f.properties.apt).obj])
            ELSE resolved
    /\ LET early == EarlyStep(f)
           mapping == category_mapping(f.properties.cat, f.properties.apt)
           obj == Prepared(mapping.obj, f)
           es == format_feature_for_es(obj, f.geometry.type)
           gng == format_feature_for_gng(obj, f.geometry.type)
       IN  IF early \in {"continue_geometry", "continue_airport", "continue_disabled"}
           THEN /\ step' = early
                /\ logged' = IF early = "continue_geometry" THEN {} ELSE {early}
                /\ feature_object' = NoObject
                /\ point_coordinates' = DefaultPoint
                /\ formatted_feature' = <<>>
                /\ gng_formatted_feature' = <<>>
                /\ UNCHANGED <<pc, exit_code, es_data, gng_data, colors_used,
                               accepted_regions>>
           ELSE IF early \in {"raise_category", "exit_mapping"}
           THEN /\ step' = early
                /\ logged' = {}
                /\ pc' = "exited"
                /\ exit_code' = IF early = "raise_category" THEN 1 ELSE 255
                /\ feature_object' = NoObject
                /\ point_coordinates' = DefaultPoint
                /\ formatted_feature' = <<>>
                /\ gng_formatted_feature' = <<>>
                /\ UNCHANGED <<es_data, gng_data, colors_used, accepted_regions>>
           ELSE IF early = "continue_ignore"
           THEN /\ step' = early
                /\ logged' = mapping.warn
                /\ feature_object' = mapping.obj
                /\ point_coordinates' = DefaultPoint
                /\ formatted_feature' = <<>>
                /\ gng_formatted_feature' = <<>>
                /\ UNCHANGED <<pc, exit_code, es_data, gng_data, colors_used,
                               accepted_regions>>
           ELSE /\ feature_object' = obj
                /\ colors_used' = RecordColor(colors_used, obj.Color)
                /\ point_coordinates' = es.point
                /\ logged' = mapping.warn \cup es.warn
                /\ IF es.status # "ok"
                   THEN /\ step' = IF es.status = "exit" THEN "exit_es" ELSE "raise_es"
                        /\ pc' = "exited"
                        /\ exit_code' = IF es.status = "exit" THEN 255 ELSE 1
                        /\ formatted_feature' = <<>>
                        /\ gng_formatted_feature' = <<>>
                        /\ UNCHANGED <<es_data, gng_data, accepted_regions>>
                   ELSE IF gng.status # "ok"
                   THEN /\ step' = IF gng.status = "exit" THEN "exit_gng" ELSE "raise_gng"
                        /\ pc' = "exited"
                        /\ exit_code' = IF gng.status = "exit" THEN 255 ELSE 1
                        /\ formatted_feature' = es.val
                        /\ gng_formatted_feature' = <<>>
                        /\ UNCHANGED <<es_data, gng_data, accepted_regions>>
                   ELSE /\ step' = "appended"
                        /\ formatted_feature' = es.val
                        /\ gng_formatted_feature' = gng.val
                        /\ UNCHANGED <<pc, exit_code>>
                        /\ IF obj.ES_Category = "regions"
                           THEN /\ es_data' = [es_data EXCEPT !.regions.Features =
                                                    Append(@, es.val)]
                                /\ gng_data' = [gng_data EXCEPT !.regions.Features =
                                                    GngAppendRegion(@, gng.val)]
                                /\ accepted_regions' =
                                        Append(accepted_regions,
                                               [es |-> es.val, gng |-> gng.val])
                           ELSE /\ es_data' = [es_data EXCEPT
                                                ![obj.ES_Category].Output_String =
                                                    @ \o es.val]
                                /\ gng_data' = [gng_data EXCEPT
                                                ![obj.ES_Category].Features =
                                                    GngAppendCode(@, gng.val)]
                                /\ UNCHANGED accepted_regions

\* read_folder returns: every feature of every file was read.
EndOfInput ==
    /\ pc = "read_folder"
    /\ pc' = "sort_regions"
    /\ logged' = {}
    /\ UNCHANGED <<definitions, exit_code, nread, es_data, gng_data, colors_used, files, feature,
                   step, feature_object, point_coordinates, formatted_feature,
                   gng_formatted_feature, accepted_regions, resolved,
                   coordinate_pair, es_notation>>

\* ---------------------------------------------------------------- after the loop
RegionTexts(features) == [i \in DOMAIN features |-> features[i].Formatted_Region]

\* sort_regions(es_data, gng_data): the primary regions by priority, and their
\* texts, in that order, as the primary region output.
sort_regions_euroscope(data) ==
    [data EXCEPT
        !.regions.Features = SortedByPriority(data.regions.Features),
        !.regions.Output_String =
            @ \o Flatten(RegionTexts(SortedByPriority(data.regions.Features)))]

\* sort_regions(es_data, gng_data, "gng"): every layer becomes its sorted
\* entries and their texts, each followed by a newline.
GngSortedLayer(layer_features) ==
    [Output_String |->
        Flatten([i \in DOMAIN layer_features |->
                    SortedByPriority(layer_features)[i].Formatted_Region \o <<Newline>>]),
     Features |-> SortedByPriority(layer_features)]

sort_regions_gng(data) ==
    [data EXCEPT !.regions.Features =
        [i \in DOMAIN @ |-> [key |-> @[i].key, val |-> GngSortedLayer(@[i].val)]]]

AIRAC == "2308"

GngHeader(kind, airport, words) ==
    [k |-> "AERONAV", kind |-> kind, airport |-> airport, words |-> words,
     airac |-> AIRAC]

\* The three loops of format_for_gng over the layers, after the sort.
GngOutputs(data) ==
    [data EXCEPT
        !.regions.Output_String = @ \o
            Flatten([i \in DOMAIN data.regions.Features |->
                <<GngHeader("regions", GroupAirport(data.regions.Features[i].key),
                            GroupRest(data.regions.Features[i].key))>>
                \o data.regions.Features[i].val.Output_String \o <<Newline>>]),
        !.geo.Output_String = @ \o
            Flatten([i \in DOMAIN data.geo.Features |->
                <<GngHeader("geo", data.geo.Features[i].val.Airport,
                            <<data.geo.Features[i].val.Category>>
                            \o data.geo.Features[i].val.Name)>>
                \o data.geo.Features[i].val.Code \o <<Newline>>]),
        !.freetext.Output_String = @ \o
            Flatten([i \in DOMAIN data.freetext.Features |->
                <<GngHeader("freetext", data.freetext.Features[i].val.Airport,
                            data.freetext.Features[i].val.Labelgroup)>>
                \o data.freetext.Features[i].val.Code \o <<Newline, Newline>>])]

Rest == <<definitions, nread, feature, step, feature_object, point_coordinates,
          formatted_feature, gng_formatted_feature, accepted_regions, resolved,
          coordinate_pair, es_notation>>

\* sort_regions(es_data, gng_data) of the main program.
SortRegions ==
    /\ pc = "sort_regions"
    /\ es_data' = sort_regions_euroscope(es_data)
    /\ pc' = "write_sct_file"
    /\ UNCHANGED <<exit_code, gng_data, colors_used, files, logged>>
    /\ UNCHANGED Rest

\* write_sct_file(output_folder, es_data)
WriteSctFile ==
    /\ pc = "write_sct_file"
    /\ files' = files \cup {"sct"}
    /\ pc' = "write_ese_file"
    /\ UNCHANGED <<exit_code, es_data, gng_data, colors_used, logged>>
    /\ UNCHANGED Rest

\* write_ese_file(output_folder, es_data)
WriteEseFile ==
    /\ pc = "write_ese_file"
    /\ files' = files \cup {"ese"}
    /\ pc' = "format_for_gng"
    /\ UNCHANGED <<exit_code, es_data, gng_data, colors_used, logged>>
    /\ UNCHANGED Rest

\* format_for_gng(output_folder, es_data, gng_data): the sort of the layers,
\* the three texts and a file for each.
FormatForGng ==
    /\ pc = "format_for_gng"
    /\ gng_data' = GngOutputs(sort_regions_gng(gng_data))
    /\ files' = files \cup {"GNG_geo", "GNG_freetext", "GNG_regions"}
    /\ pc' = "color_check"
    /\ UNCHANGED <<exit_code, es_data, colors_used, logged>>
    /\ UNCHANGED Rest

\* The loop over colors_used that ends the main program: a warning for every
\* color that is no name of the sector file colors.
ColorCheck ==
    /\ pc = "color_check"
    /\ logged' = { i \in DOMAIN colors_used :
                     ~(colors_used[i].t = "name"
                       /\ InList(colors_used[i].s, definitions.Colors.Sector_File_Colors)) }
    /\ pc' = "exited"
    /\ exit_code' = 0
    /\ UNCHANGED <<es_data, gng_data, colors_used, files>>
    /\ UNCHANGED Rest

Next ==
    \/ \E i \in DOMAIN FeatureInputs : ReadFeature(FeatureInputs[i])
    \/ EndOfInput
    \/ SortRegions
    \/ WriteSctFile
    \/ WriteEseFile
    \/ FormatForGng
    \/ ColorCheck

Spec == Init /\ [][Next]_vars

\* ---------------------------------------------------------------- the transform alone
\* The coordinate transform on its own, for latitudes of -90..90 and
\* longitudes of -180..180: whole degrees, whole minutes that binary floating
\* point can and cannot hold, seconds that round up to 60, seconds half way
\* between two thousandths, seconds below 10, both signs and both zeros.
LatitudeInputs ==
    {Degrees(FALSE, 0, 0), Degrees(TRUE, 0, 0), Degrees(TRUE, 0, 1),
     Degrees(FALSE, 47, 16729200), Degrees(FALSE, 47, 14400000),
     Degrees(FALSE, 1, 13800000), Degrees(FALSE, 47, 14399996),
     Degrees(TRUE, 33, 7654325), Degrees(FALSE, 90, 0),
     Degrees(TRUE, 89, 35999999), Degrees(FALSE, 12, 9000000)}

LongitudeInputs ==
    {Degrees(FALSE, 8, 19771200), Degrees(FALSE, 180, 0), Degrees(TRUE, 180, 0),
     Degrees(TRUE, 73, 1234567), Degrees(FALSE, 0, 0),
     Degrees(FALSE, 100, 18000000), Degrees(TRUE, 179, 35999996),
     Degrees(FALSE, 8, 21000000), Degrees(FALSE, 9, 45005),
     Degrees(TRUE, 0, 600000)}

CoordInit ==
    /\ definitions = DefinitionsFile
    /\ pc = "transform"
    /\ coordinate_pair \in {<<east, north>> : east \in LongitudeInputs, north \in LatitudeInputs}
    /\ es_notation = <<>>
    /\ exit_code = 0
    /\ nread = 0
    /\ es_data = <<>>
    /\ gng_data = <<>>
    /\ colors_used = <<>>
    /\ files = {}
    /\ logged = {}
    /\ feature = <<>>
    /\ step = "start"
    /\ feature_object = NoObject
    /\ point_coordinates = DefaultPoint
    /\ formatted_feature = <<>>
    /\ gng_formatted_feature = <<>>
    /\ accepted_regions = <<>>
    /\ resolved = <<>>

\* decimal_degrees_to_es_notation(coordinate_pair), for each outcome of its
\* floating point steps on either axis.
Transform ==
    /\ pc = "transform"
    /\ \E float_north \in FloatOutcomes, float_east \in FloatOutcomes :
            es_notation' = NotationText(es_notation_values(coordinate_pair,
                                                           float_north, float_east))
    /\ pc' = "transformed"
    /\ UNCHANGED <<exit_code, es_data, gng_data, colors_used, files, logged,
                   coordinate_pair>>
    /\ UNCHANGED <<definitions, nread, feature, step, feature_object, point_coordinates,
                   formatted_feature, gng_formatted_feature, accepted_regions,
                   resolved>>

CoordNext == Transform

CoordSpec == CoordInit /\ [][CoordNext]_vars

\* ---------------------------------------------------------------- properties
\* The loop iteration of the last feature got as far as rule resolution.
ReachedResolution ==
    step \in {"exit_mapping", "continue_ignore", "appended",
              "exit_es", "raise_es", "exit_gng", "raise_gng"}

\* The loop iteration of the last feature got as far as the serializers.
ReachedSerializers ==
    step \in {"appended", "exit_es", "raise_es", "exit_gng", "raise_gng"}

\* The loop iteration of the last feature ended the run.
FatalStep ==
    step \in {"raise_category", "exit_mapping", "exit_es", "raise_es",
              "exit_gng", "raise_gng"}

Aborted == pc = "exited" /\ exit_code # 0

\* The final sort pass of the primary regions is over.
PrimarySorted ==
    pc \in {"write_sct_file", "write_ese_file", "format_for_gng", "color_check"}
    \/ (pc = "exited" /\ exit_code = 0)

\* The sort of the secondary layers is over.
SecondarySorted == pc = "color_check" \/ (pc = "exited" /\ exit_code = 0)

\* The last feature has a geometry and an airport, no disabled marker, and no
\* category tag.
NoCategoryTag ==
    /\ nread > 0
    /\ feature.geometry.type # "None"
    /\ feature.properties.apt # NoneStr
    /\ feature.properties.cat = NoneCat

\* C1: a record without category tag, or any other fatal condition while the
\* features are read and serialized, ends the run with a non-zero exit and
\* with no output file written; files are written only after the whole input
\* was read without a fatal condition.
C1_NoOutputOnFatal ==
    /\ (NoCategoryTag \/ FatalStep) => (Aborted /\ files = {})
    /\ pc \in {"read_folder", "sort_regions", "write_sct_file"} => files = {}
    /\ files # {} => (~FatalStep /\ ~Aborted)

C1_Witness ==
    /\ NoCategoryTag
    /\ pc = "exited"
    /\ Len(es_data.regions.Features) > 0

IsAscending(features) ==
    \A i, j \in DOMAIN features : i < j => features[i].Priority <= features[j].Priority

Occurrences(list, e) == Cardinality({i \in DOMAIN list : list[i] = e})

AcceptedEs == [i \in DOMAIN accepted_regions |-> accepted_regions[i].es]
AcceptedGng == [i \in DOMAIN accepted_regions |-> accepted_regions[i].gng]

\* C2: after the final sort pass the primary region output is the texts of
\* all accepted regions of the run, in ascending priority.
C2_PrimaryRegionsAscending ==
    PrimarySorted =>
        /\ IsAscending(es_data.regions.Features)
        /\ Len(es_data.regions.Features) = Len(accepted_regions)
        /\ \A i \in DOMAIN accepted_regions :
                Occurrences(es_data.regions.Features, AcceptedEs[i])
                    = Occurrences(AcceptedEs, AcceptedEs[i])
        /\ es_data.regions.Output_String
                = Flatten(RegionTexts(es_data.regions.Features))

C2_Witness ==
    /\ PrimarySorted
    /\ Len(accepted_regions) >= 2
    /\ AcceptedEs[1].Priority > AcceptedEs[2].Priority
    /\ Len(es_data.regions.Output_String) > 0

OfPriority(list, p) ==
    LET Test(e) == e.Priority = p
    IN  SelectSeq(list, Test)

OfLayer(list, key) ==
    LET Test(e) == e.RegionName = key
    IN  SelectSeq(list, Test)

Priorities == {AcceptedEs[i].Priority : i \in DOMAIN accepted_regions}

\* C3: accepted regions of equal priority keep their discovery order in the
\* primary region output and, within one layer, in the secondary region output.
C3_EqualPriorityKeepsDiscoveryOrder ==
    /\ PrimarySorted =>
        /\ \A p \in Priorities :
                OfPriority(es_data.regions.Features, p) = OfPriority(AcceptedEs, p)
        /\ es_data.regions.Output_String
                = Flatten(RegionTexts(es_data.regions.Features))
    /\ SecondarySorted =>
        \A n \in DOMAIN gng_data.regions.Features :
            LET layer == gng_data.regions.Features[n]
            IN  /\ \A p \in Priorities :
                        OfPriority(layer.val.Features, p)
                            = OfPriority(OfLayer(AcceptedGng, layer.key), p)
                /\ layer.val.Output_String
                        = Flatten([i \in DOMAIN layer.val.Features |->
                                    layer.val.Features[i].Formatted_Region \o <<Newline>>])

C3_Witness ==
    /\ SecondarySorted
    /\ Len(accepted_regions) >= 2
    /\ AcceptedGng[1].Priority = AcceptedGng[2].Priority
    /\ AcceptedGng[1].RegionName = AcceptedGng[2].RegionName
    /\ AcceptedGng[1] # AcceptedGng[2]

\* The rings of the last feature, a polygon or the first polygon of a
\* multi-polygon.
FeatureRings ==
    IF feature.geometry.type = "MultiPolygon"
    THEN feature.geometry.coordinates[1]
    ELSE feature.geometry.coordinates

\* How many lines of the given kinds the n-th block of a text holds, a block
\* starting with a line of kind start.
LinesOfBlock(text, start, n, kinds) ==
    Cardinality({p \in DOMAIN text :
                    /\ text[p].k \in kinds
                    /\ Cardinality({q \in 1..p : text[q].k = start}) = n})

BlockCount(text, start) == Cardinality({p \in DOMAIN text : text[p].k = start})

RegionAppended ==
    /\ step = "appended"
    /\ feature_object.ES_Category = "regions"
    /\ feature_object.Feature_Type = "Polygon"

\* C4: for every ring of K >= 2 vertices of a region, the primary serializer
\* emits K-1 lines that bear a vertex and the secondary serializer K.
C4_RingVertexLines ==
    RegionAppended =>
        /\ BlockCount(formatted_feature.Formatted_Region, "REGIONNAME")
                = Len(FeatureRings)
        /\ BlockCount(gng_formatted_feature.Formatted_Region, "color")
                = Len(FeatureRings)
        /\ \A n \in DOMAIN FeatureRings :
                Len(FeatureRings[n]) >= 2 =>
                    /\ LinesOfBlock(formatted_feature.Formatted_Region, "REGIONNAME",
                                    n, {"first", "coord"}) = Len(FeatureRings[n]) - 1
                    /\ LinesOfBlock(gng_formatted_feature.Formatted_Region, "color",
                                    n, {"coord"}) = Len(FeatureRings[n])

C4_Witness ==
    /\ RegionAppended
    /\ Len(FeatureRings) = 2
    /\ Len(FeatureRings[1]) >= 2
    /\ Len(FeatureRings[2]) >= 2

\* The segments between neighbours of one ring, as the serializers write a
\* vertex.
RingSegments(ring) ==
    { <<decimal_degrees_to_es_notation(ring[i]),
        decimal_degrees_to_es_notation(ring[i + 1])>> : i \in 1..(Len(ring) - 1) }

SegmentsOf(text) ==
    { <<text[p].a, text[p].b>> :
        p \in {q \in DOMAIN text : text[q].k \in {"geo_first", "geo_segment"}} }

SegmentLines(text) ==
    Cardinality({q \in DOMAIN text : text[q].k \in {"geo_first", "geo_segment"}})

LineFromMultiPolygon ==
    /\ step = "appended"
    /\ feature_object.Feature_Type = "Line"
    /\ feature_object.ES_Category = "geo"
    /\ feature.geometry.type = "MultiPolygon"

\* C5: a declared Line with a MultiPolygon geometry is written, in both
\* dialects, from the outer ring of the first polygon only, with a warning.
C5_LineFromOuterRingOnly ==
    LineFromMultiPolygon =>
        /\ "holes may be lost" \in logged
        /\ SegmentsOf(formatted_feature)
                \subseteq RingSegments(feature.geometry.coordinates[1][1])
        /\ SegmentsOf(gng_formatted_feature.Code)
                \subseteq RingSegments(feature.geometry.coordinates[1][1])
        /\ SegmentLines(formatted_feature)
                = Len(feature.geometry.coordinates[1][1]) - 1
        /\ SegmentLines(gng_formatted_feature.Code)
                = Len(feature.geometry.coordinates[1][1]) - 1

PointFrom(kind) ==
    /\ ReachedSerializers
    /\ feature_object.Feature_Type = "Point"
    /\ feature.geometry.type = kind
    /\ Len(feature.geometry.coordinates) > 0
    /\ Len(feature.geometry.coordinates[1]) > 0

\* C6: a declared Point takes from a MultiPolygon the first vertex of the first
\* ring of the first polygon, and from a MultiLineString the first vertex of
\* the first line, as the one pair handed to the coordinate transform.
C6_PointFromFirstVertex ==
    /\ PointFrom("MultiPolygon") =>
            /\ point_coordinates.d = 1
            /\ point_coordinates.v = feature.geometry.coordinates[1][1][1]
    /\ PointFrom("MultiLineString") =>
            /\ point_coordinates.d = 1
            /\ point_coordinates.v = feature.geometry.coordinates[1][1]

\* The rows of the downgrade table.
DowngradeTable ==
    { <<"Polygon", "Polygon">>, <<"Polygon", "MultiPolygon">>,
      <<"Line", "MultiLineString">>, <<"Line", "LineString">>, <<"Line", "MultiPolygon">>,
      <<"Point", "Point">>, <<"Point", "MultiPolygon">>, <<"Point", "MultiLineString">> }

\* C7: a declared shape with a geometry kind that is no row of the downgrade
\* table ends the run, and nothing is written for the feature.
C7_UnlistedMappingFatal ==
    (ReachedSerializers
        /\ <<feature_object.Feature_Type, feature.geometry.type>> \notin DowngradeTable)
    => (Aborted /\ step # "appended")

\* The coordinate tree of the last feature is empty at some stage: at the top,
\* in the list the downgrade yields, or in one of its rings or lines.
EmptyAtSomeStage ==
    LET C == feature.geometry.coordinates
        kind == feature.geometry.type
    IN  \/ Len(C) = 0
        \/ /\ kind \in {"Polygon", "MultiLineString"}
           /\ \E i \in DOMAIN C : Len(C[i]) = 0
        \/ /\ kind = "MultiPolygon"
           /\ (Len(C[1]) = 0 \/ \E i \in DOMAIN C[1] : Len(C[1][i]) = 0)

\* C8: a feature whose coordinate tree is empty at any stage ends the run and
\* adds no entry to any accumulator.
C8_EmptyGeometryFatal ==
    (ReachedSerializers /\ EmptyAtSomeStage) => (Aborted /\ step # "appended")

UnknownRoot(category) == category[1] \notin DOMAIN definitions.Category_Mapping

UnknownSuffix(category) ==
    /\ ~UnknownRoot(category)
    /\ Len(category) > 1
    /\ category[2] \notin DOMAIN definitions.Category_Mapping[category[1]].suffixes

\* C9: rule resolution ends the run, returning no descriptor, exactly for the
\* tags with an unknown root or an unknown first suffix segment; for every
\* other tag it returns a descriptor.
C9_ResolutionFatalIffUnknown ==
    ReachedResolution =>
        IF UnknownRoot(feature.properties.cat) \/ UnknownSuffix(feature.properties.cat)
        THEN step = "exit_mapping" /\ Aborted /\ DOMAIN feature_object = {}
        ELSE step # "exit_mapping" /\ "Group" \in DOMAIN feature_object

C9_Witness ==
    /\ ReachedResolution
    /\ UnknownSuffix(feature.properties.cat)
    /\ step = "exit_mapping"
    /\ nread > 1

\* The entries of a layer of the secondary region accumulator, a list before
\* the sort of the layers and a record with the sorted list after it.
LayerEntries(val) == IF SecondarySorted THEN val.Features ELSE val

\* C10: every entry of the primary and of the secondary region accumulator
\* carries a priority; a region feature whose descriptor has none ends the
\* run before anything is appended for it.
C10_RegionsCarryPriority ==
    /\ \A i \in DOMAIN es_data.regions.Features :
            "Priority" \in DOMAIN es_data.regions.Features[i]
    /\ \A n \in DOMAIN gng_data.regions.Features :
            \A i \in DOMAIN LayerEntries(gng_data.regions.Features[n].val) :
                "Priority" \in DOMAIN LayerEntries(gng_data.regions.Features[n].val)[i]
    /\ (ReachedSerializers
            /\ feature_object.ES_Category = "regions"
            /\ "Priority" \notin DOMAIN feature_object)
        => (Aborted /\ step # "appended")

C10_Witness ==
    /\ step = "exit_es"
    /\ feature_object.ES_Category = "regions"
    /\ "Priority" \notin DOMAIN feature_object
    /\ Len(feature.geometry.coordinates) > 0
    /\ Len(es_data.regions.Features) > 0

\* The loop iteration of the last feature resolved its tag to a descriptor.
ResolutionSucceeded == ReachedResolution /\ step # "exit_mapping"

\* The group name still holds a placeholder of its template.
HasTemplateToken(group) == InList("$1", group) \/ InList("$airport", group)

\* C11: the group name of every descriptor that rule resolution returns holds
\* neither the runway placeholder $1 nor the airport placeholder $airport, also
\* when the template holds $1 and the tag has no second suffix segment.
C11_GroupFullyResolved ==
    ResolutionSucceeded => ~HasTemplateToken(feature_object.Group)

HasDisabledMarker(category) ==
    category # NoneCat /\ \E i \in 2..Len(category) : category[i] \in DisSegments

ResolvesToIgnored(category, airport) ==
    /\ category # NoneCat
    /\ ~UnknownRoot(category)
    /\ ~UnknownSuffix(category)
    /\ "Ignore" \in DOMAIN category_mapping(category, airport).obj
    /\ category_mapping(category, airport).obj.Ignore

SkippedAsRecoverable(f) ==
    \/ f.geometry.type = "None"
    \/ f.properties.apt = NoneStr
    \/ HasDisabledMarker(f.properties.cat)
    \/ ResolvesToIgnored(f.properties.cat, f.properties.apt)

\* C13: the loop iteration of a feature without geometry, without airport
\* code, with a disabled marker or with an ignored descriptor changes neither
\* an accumulator of the two dialects nor the recorded colors and does not end
\* the run, also when the root or the suffix of a feature without airport or
\* with a disabled marker is unknown, and when the geometry of an ignored
\* feature is empty or of an unsupported kind.
C13_RecoverableSkipLeavesState ==
    [][(nread' = nread + 1 /\ SkippedAsRecoverable(feature'))
        => /\ es_data' = es_data
           /\ gng_data' = gng_data
           /\ colors_used' = colors_used
           /\ accepted_regions' = accepted_regions
           /\ pc' = "read_folder"
           /\ exit_code' = 0]_vars

\* An ignored feature with an empty geometry was skipped after a feature that
\* was appended.
C13_Witness ==
    /\ step = "continue_ignore"
    /\ Len(feature.geometry.coordinates) = 0
    /\ Len(colors_used) > 0
    /\ pc = "read_folder"

\* The characters of a text that are decimal digits, and the number they write.
IsDigit(c) == \E d \in 1..10 : DigitChars[d] = c

DigitValue(c) == (CHOOSE d \in 1..10 : DigitChars[d] = c) - 1

RECURSIVE NumberOf(_)
NumberOf(chars) ==
    IF Len(chars) = 0 THEN 0
    ELSE NumberOf(SubSeq(chars, 1, Len(chars) - 1)) * 10 + DigitValue(chars[Len(chars)])

\* The text of one axis has the layout H DDD . MM . SS . sss, its letter being one of letters.
AxisLayout(axis_text, letters) ==
    /\ Len(axis_text) = 14
    /\ axis_text[1] \in letters
    /\ \A i \in {2, 3, 4, 6, 7, 9, 10, 12, 13, 14} : IsDigit(axis_text[i])
    /\ \A i \in {5, 8, 11} : axis_text[i] = "."

\* The minutes of the text of an axis, and its seconds in thousandths.
MinutesOf(axis_text) == NumberOf(SubSeq(axis_text, 6, 7))

MilliSecondsOf(axis_text) ==
    NumberOf(SubSeq(axis_text, 9, 10)) * 1000 + NumberOf(SubSeq(axis_text, 12, 14))

IsNegative(value) == value.neg /\ (value.deg > 0 \/ value.frac > 0)

\* C14: the text of the transform is 29 characters long, the latitude first
\* and the longitude after one space, each axis of 14 characters (hemisphere
\* letter, three digits of degrees, point, two digits of minutes, point, two
\* digits, point and three digits of seconds), the minutes at most 59 and the
\* seconds below 60, the hemisphere letter S or W exactly for a negative value.
C14_FixedLayout ==
    (pc = "transformed") =>
        /\ Len(es_notation) = 29
        /\ es_notation[15] = " "
        /\ AxisLayout(SubSeq(es_notation, 1, 14), {"N", "S"})
        /\ AxisLayout(SubSeq(es_notation, 16, 29), {"E", "W"})
        /\ MinutesOf(SubSeq(es_notation, 1, 14)) <= 59
        /\ MinutesOf(SubSeq(es_notation, 16, 29)) <= 59
        /\ MilliSecondsOf(SubSeq(es_notation, 1, 14)) < 60000
        /\ MilliSecondsOf(SubSeq(es_notation, 16, 29)) < 60000
        /\ (es_notation[1] = "S") <=> IsNegative(coordinate_pair[2])
        /\ (es_notation[16] = "W") <=> IsNegative(coordinate_pair[1])

\* The distance, in ten-thousandths of an arc second, between a value and the
\* number that the text of an axis decodes to: the sign of the hemisphere
\* letter times degrees + minutes / 60 + seconds / 3600.
DecodeError(value, axis_text, negative) ==
    LET degrees == NumberOf(SubSeq(axis_text, 2, 4))
        rest == MinutesOf(axis_text) * (UnitsPerDegree \div 60)
                    + MilliSecondsOf(axis_text) * 10
    IN  IF degrees = value.deg /\ (axis_text[1] = negative) = IsNegative(value)
        THEN IF rest >= value.frac THEN rest - value.frac ELSE value.frac - rest
        ELSE IF degrees = 0 /\ value.deg = 0 THEN rest + value.frac
        ELSE UnitsPerDegree

\* C15: the text of the transform decodes, per axis, to a number within 0.001
\* arc second (ten ten-thousandths) of the value it was made from.
C15_RoundTrip ==
    (pc = "transformed") =>
        /\ Len(es_notation) = 29
        /\ AxisLayout(SubSeq(es_notation, 1, 14), {"N", "S"})
        /\ AxisLayout(SubSeq(es_notation, 16, 29), {"E", "W"})
        /\ DecodeError(coordinate_pair[2], SubSeq(es_notation, 1, 14), "S") <= 10
        /\ DecodeError(coordinate_pair[1], SubSeq(es_notation, 16, 29), "W") <= 10

\* A runway designator: one or two digits and an optional side letter.
RunwayDesignators == {"5", "28", "16", "10L"}

\* The first suffix of the tag sets a group name with the placeholder $1 and
\* declares no additional suffixes: the group name that suffix sets.
SuffixGroupPairs(category) ==
    LET suffix_description == definitions.Category_Mapping[category[1]].suffixes[category[2]]
    IN  { i \in DOMAIN suffix_description : suffix_description[i][1] = "Group" }

SuffixTemplate(category) ==
    LET suffix_description == definitions.Category_Mapping[category[1]].suffixes[category[2]]
    IN  suffix_description[CHOOSE i \in SuffixGroupPairs(category) : TRUE][2]

HasRunwayTemplate(category) ==
    /\ category # NoneCat
    /\ Len(category) > 2
    /\ ~UnknownRoot(category)
    /\ ~UnknownSuffix(category)
    /\ SuffixGroupPairs(category) # {}
    /\ InList("$1", SuffixTemplate(category))
    /\ \A i \in DOMAIN definitions.Category_Mapping[category[1]].suffixes[category[2]] :
            definitions.Category_Mapping[category[1]].suffixes[category[2]][i][1]
                # "Additional Suffixes"

\* C16: for a tag whose second suffix segment is a runway designator, the
\* group name of the descriptor is the template with $1 replaced by that
\* segment, however many segments follow it; for a second suffix segment that
\* is no runway designator $1 is not replaced.
C16_RunwayPlaceholder ==
    (ResolutionSucceeded /\ HasRunwayTemplate(feature.properties.cat)) =>
        feature_object.Group =
            Replace(IF feature.properties.cat[3] \in RunwayDesignators
                    THEN Replace(SuffixTemplate(feature.properties.cat), "$1",
                                 feature.properties.cat[3])
                    ELSE SuffixTemplate(feature.properties.cat),
                    "$airport", feature.properties.apt)

\* The attribute list of the first suffix of a tag, and whether it declares a
\* table of additional suffixes and sets no color itself.
SuffixDescription(category) ==
    definitions.Category_Mapping[category[1]].suffixes[category[2]]

DeclaresAdditional(category) ==
    /\ category # NoneCat
    /\ Len(category) > 1
    /\ ~UnknownRoot(category)
    /\ ~UnknownSuffix(category)
    /\ \E i \in DOMAIN SuffixDescription(category) :
            SuffixDescription(category)[i][1] = "Additional Suffixes"
    /\ \A i \in DOMAIN SuffixDescription(category) :
            SuffixDescription(category)[i][1] # "Color"

\* The entries of the table whose overrides are to be applied: those named by
\* a segment after the first suffix, when the second suffix segment is no
\* runway designator.
EntriesToApply(category) ==
    IF Len(category) > 2 /\ category[3] \notin RunwayDesignators
    THEN { i \in DOMAIN AdditionalOf(SuffixDescription(category)) :
             \E j \in 3..Len(category) :
                AdditionalOf(SuffixDescription(category))[i][1] = category[j] }
    ELSE {}

\* The entries among them that set a color.
ColorEntries(category) ==
    { i \in EntriesToApply(category) :
        \E k \in DOMAIN AdditionalOf(SuffixDescription(category))[i][2] :
            AdditionalOf(SuffixDescription(category))[i][2][k][1] = "Color" }

ColorOfEntry(category, i) ==
    LET overrides == AdditionalOf(SuffixDescription(category))[i][2]
    IN  overrides[CHOOSE k \in DOMAIN overrides : overrides[k][1] = "Color"][2]

\* C17: the overrides of the table of additional suffixes are applied exactly
\* for a tag whose second suffix segment is no runway designator, and then
\* those of the entries named by a segment after the first suffix: the color
\* of the descriptor is that of the last such entry with a color, and the
\* color of the root otherwise; a second suffix segment that is neither a
\* runway designator nor an entry still gives a descriptor, with a warning.
C17_AdditionalOverrides ==
    (ResolutionSucceeded /\ DeclaresAdditional(feature.properties.cat)) =>
        LET category == feature.properties.cat
            returned == category_mapping(category, feature.properties.apt)
            last_entry == CHOOSE i \in ColorEntries(category) :
                            \A j \in ColorEntries(category) : j <= i
        IN  /\ returned.status = "ok"
            /\ returned.obj.Color =
                    IF ColorEntries(category) # {}
                    THEN ColorOfEntry(category, last_entry)
                    ELSE definitions.Category_Mapping[category[1]].default.Color
            /\ (Len(category) > 2
                    /\ category[3] \notin RunwayDesignators
                    /\ EntriesToApply(category) = {})
                => "Unmappable additional suffix" \in returned.warn

\* The pairs of an attribute list that set key, and the value they set.
AttrPairs(pairs, key) == { i \in DOMAIN pairs : pairs[i][1] = key }

ValueIn(pairs, key) == pairs[CHOOSE i \in AttrPairs(pairs, key) : TRUE][2]

\* The table of additional suffixes of the first suffix of a tag, empty when
\* it declares none, and its entries that a segment after the first suffix
\* names and that set key.
AdditionalTable(category) ==
    IF AttrPairs(SuffixDescription(category), "Additional Suffixes") # {}
    THEN AdditionalOf(SuffixDescription(category))
    ELSE <<>>

MatchedEntries(category, key) ==
    { i \in DOMAIN AdditionalTable(category) :
        /\ \E j \in 3..Len(category) : AdditionalTable(category)[i][1] = category[j]
        /\ AttrPairs(AdditionalTable(category)[i][2], key) # {} }

\* The value of key after the merge of the three layers: that of the last
\* matched additional suffix that sets it, else that of the first suffix, else
\* that of the root.
MergedValue(category, key) ==
    IF MatchedEntries(category, key) # {}
    THEN ValueIn(AdditionalTable(category)[
                    CHOOSE i \in MatchedEntries(category, key) :
                        \A j \in MatchedEntries(category, key) : j <= i][2], key)
    ELSE IF AttrPairs(SuffixDescription(category), key) # {}
    THEN ValueIn(SuffixDescription(category), key)
    ELSE definitions.Category_Mapping[category[1]].default[AttrName(key)]

\* C18: for a tag with a first suffix and no runway designator after it, the
\* color and the group name of the descriptor are those of the highest layer
\* that sets them, the root default below the first suffix below the matched
\* additional suffixes, whatever the order of the keys of the suffix.
C18_LayeredMerge ==
    (/\ ResolutionSucceeded
     /\ feature.properties.cat # NoneCat
     /\ Len(feature.properties.cat) > 1
     /\ (Len(feature.properties.cat) > 2
            => feature.properties.cat[3] \notin RunwayDesignators)) =>
        LET category == feature.properties.cat
            returned == category_mapping(category, feature.properties.apt)
        IN  /\ returned.obj.Color = MergedValue(category, "Color")
            /\ returned.obj.Group =
                    Replace(MergedValue(category, "Group"), "$airport",
                            feature.properties.apt)

\* The color token of the n-th ring block of a primary region text.
RingColor(text, n) ==
    text[CHOOSE p \in DOMAIN text :
            /\ text[p].k = "first"
            /\ Cardinality({q \in 1..p : text[q].k = "first"}) = n].color

\* C19: in the primary text of a region the block of the first ring bears
\* the color token of the feature and the block of every later ring the hole
\* color of the rule table, whatever the color of the feature.
C19_HoleRingsGetHoleColor ==
    RegionAppended =>
        /\ BlockCount(formatted_feature.Formatted_Region, "first") = Len(FeatureRings)
        /\ \A n \in DOMAIN FeatureRings :
                RingColor(formatted_feature.Formatted_Region, n) =
                    IF n = 1 THEN ColorToken(feature_object.Color)
                    ELSE [prefixed |-> TRUE, color |-> DefinitionsFile.Colors.Hole_Color]

\* A region with two holes and a color of its own, which is not the hole color.
C19_Witness ==
    /\ RegionAppended
    /\ Len(FeatureRings) = 3
    /\ feature.properties.clr # NoneColor
    /\ feature_object.Color # DefinitionsFile.Colors.Hole_Color
    /\ RingColor(formatted_feature.Formatted_Region, 3).color
            = DefinitionsFile.Colors.Hole_Color

\* The colors of the tokens in the primary texts emitted so far: those of the
\* ring blocks of the regions and those of the lines of the geo features.
EmittedColors ==
    UNION { { es_data.regions.Features[i].Formatted_Region[p].color.color :
                p \in { q \in DOMAIN es_data.regions.Features[i].Formatted_Region :
                          es_data.regions.Features[i].Formatted_Region[q].k = "first" } } :
            i \in DOMAIN es_data.regions.Features }
    \cup { es_data.geo.Output_String[p].color.color :
             p \in { q \in DOMAIN es_data.geo.Output_String :
                       es_data.geo.Output_String[q].k = "geo_first" } }

\* C20: every color of a token emitted so far, the color of the hole rings
\* included, is in the recorded colors exactly once, and a run that got to the
\* check of the recorded colors ends with exit status 0.
C20_EmittedColorsRecorded ==
    /\ \A c \in EmittedColors : Occurrences(colors_used, c) = 1
    /\ (pc = "exited" /\ "GNG_regions" \in files) => exit_code = 0

\* blue * 65536 + green * 256 + red of the hex color 0xRRGGBB
BlueGreenRed(n) == (n % 256) * 65536 + ((n \div 256) % 256) * 256 + n \div 65536

\* The hex color that the color of the last feature comes from: its own color
\* when that is a hex string, else the default of its descriptor when that is
\* one and the feature has no color or a two-letter tag that is no entry of
\* the additional colors.
AbsentTag(color) ==
    /\ color.t = "tag"
    /\ \A i \in DOMAIN definitions.Colors.Additional_Colors :
            definitions.Colors.Additional_Colors[i].Tag # color.s

HexSource ==
    LET own == feature.properties.clr
        default == category_mapping(feature.properties.cat, feature.properties.apt).obj.Color
    IN  IF own.t = "hex" THEN own
        ELSE IF default.t = "hex" /\ (own = NoneColor \/ AbsentTag(own)) THEN default
        ELSE NoneColor

\* C21: the color of a feature that reaches the serializers is a decimal
\* string or a name, never a hex string; a hex color of the feature, or of
\* its descriptor when the feature has no color or a two-letter tag that is
\* no entry of the additional colors, is converted to the decimal string of
\* blue * 65536 + green * 256 + red.
C21_NoHexColor ==
    ReachedSerializers =>
        /\ feature_object.Color.t \in {"dec", "name"}
        /\ HexSource # NoneColor
                => feature_object.Color = DecColor(BlueGreenRed(HexSource.n))

\* The last feature reached the serializers as a freetext feature without label.
FreetextWithoutLabel ==
    /\ ReachedSerializers
    /\ feature_object.ES_Category = "freetext"
    /\ feature_object.Feature_Type = "Point"
    /\ feature.properties.lbl = NoneStr

GeoLineAppended ==
    /\ step = "appended"
    /\ feature_object.ES_Category = "geo"
    /\ feature_object.Feature_Type = "Line"
    /\ feature.geometry.type \in {"LineString", "MultiLineString"}

GeoLines ==
    IF feature.geometry.type = "LineString"
    THEN <<feature.geometry.coordinates>>
    ELSE feature.geometry.coordinates

\* The pairs of neighbours of a line, in order, and those of all lines.
ConsecutivePairs(element) ==
    [n \in 1..(Len(element) - 1) |->
        <<decimal_degrees_to_es_notation(element[n]),
          decimal_degrees_to_es_notation(element[n + 1])>>]

AllConsecutivePairs(elements) ==
    Flatten([i \in DOMAIN elements |-> ConsecutivePairs(elements[i])])

\* The pairs of vertices of the lines of a text, in order.
PairsOf(text) == [p \in DOMAIN text |-> <<text[p].a, text[p].b>>]

\* The positions in the primary text at which a line of the geometry starts.
FirstPositions(elements) ==
    { 1 + Len(AllConsecutivePairs(SubSeq(elements, 1, i - 1))) : i \in DOMAIN elements }

\* C23: for every line of L >= 2 vertices of a geo feature the primary text
\* holds L-1 lines, the k-th with the vertices k and k+1 and the first with
\* the group name, and the secondary text holds the same pairs in the same
\* order; no pair is left out or written twice.
C23_ConsecutiveSegments ==
    GeoLineAppended =>
        /\ PairsOf(formatted_feature) = AllConsecutivePairs(GeoLines)
        /\ PairsOf(gng_formatted_feature.Code) = AllConsecutivePairs(GeoLines)
        /\ \A p \in DOMAIN formatted_feature :
                IF p \in FirstPositions(GeoLines)
                THEN /\ formatted_feature[p].k = "geo_first"
                     /\ formatted_feature[p].group = feature_object.Group
                ELSE formatted_feature[p].k = "geo_segment"

\* A geo feature of two lines, one of them with three vertices.
C23_Witness ==
    /\ GeoLineAppended
    /\ Len(GeoLines) = 2
    /\ Len(GeoLines[1]) = 2
    /\ Len(GeoLines[2]) = 3
    /\ Len(formatted_feature) = 3
    /\ Len(gng_formatted_feature.Code) = 3

\* The entries of all layers of the secondary region accumulator, layer by layer.
SecondaryRegionEntries ==
    Flatten([n \in DOMAIN gng_data.regions.Features |->
                LayerEntries(gng_data.regions.Features[n].val)])

\* The layers of an accumulator of the secondary dialect have different keys.
DistinctKeys(entries) ==
    \A i, j \in DOMAIN entries : entries[i].key = entries[j].key => i = j

\* The accumulators of the two dialects hold the accepted regions of the run,
\* each as often as it was accepted.
RegionsInStep ==
    /\ Len(es_data.regions.Features) = Len(accepted_regions)
    /\ Len(SecondaryRegionEntries) = Len(es_data.regions.Features)
    /\ DistinctKeys(gng_data.regions.Features)
    /\ \A i \in DOMAIN accepted_regions :
            /\ Occurrences(es_data.regions.Features, AcceptedEs[i])
                    = Occurrences(AcceptedEs, AcceptedEs[i])
            /\ Occurrences(SecondaryRegionEntries, AcceptedGng[i])
                    = Occurrences(AcceptedGng, AcceptedGng[i])
            /\ \E n \in DOMAIN gng_data.regions.Features :
                    /\ gng_data.regions.Features[n].key = AcceptedGng[i].RegionName
                    /\ InList(AcceptedGng[i], LayerEntries(gng_data.regions.Features[n].val))

\* The region outputs are the blocks of the entries of the accumulators, one
\* block for each entry.
PrimaryRegionOutput ==
    es_data.regions.Output_String = Flatten(RegionTexts(es_data.regions.Features))

SecondaryRegionOutput ==
    gng_data.regions.Output_String =
        Flatten([n \in DOMAIN gng_data.regions.Features |->
            <<GngHeader("regions", GroupAirport(gng_data.regions.Features[n].key),
                        GroupRest(gng_data.regions.Features[n].key))>>
            \o Flatten([i \in DOMAIN gng_data.regions.Features[n].val.Features |->
                    gng_data.regions.Features[n].val.Features[i].Formatted_Region
                        \o <<Newline>>])
            \o <<Newline>>])

\* What a feature that is appended adds to the accumulators of its category:
\* its text once to the primary one and once to the secondary one, under the
\* key of its layer, and nothing to those of the other categories.
ContributesOnce ==
    (step' = "appended" /\ nread' = nread + 1) =>
        LET category == feature_object'.ES_Category
            before == gng_data[category].Features
            after == gng_data'[category].Features
        IN  /\ \A other \in {"geo", "freetext", "regions"} \ {category} :
                    /\ es_data'[other] = es_data[other]
                    /\ gng_data'[other] = gng_data[other]
            /\ gng_data'[category].Output_String = gng_data[category].Output_String
            /\ DistinctKeys(after)
            /\ IF category = "regions"
               THEN /\ es_data'.regions.Features
                            = Append(es_data.regions.Features, formatted_feature')
                    /\ es_data'.regions.Output_String = es_data.regions.Output_String
                    /\ \E n \in DOMAIN after :
                            /\ after[n].key = gng_formatted_feature'.RegionName
                            /\ after[n].val =
                                    (IF n \in DOMAIN before THEN before[n].val ELSE <<>>)
                                        \o <<gng_formatted_feature'>>
                            /\ \A m \in DOMAIN before : m # n => after[m] = before[m]
                            /\ Len(after) = IF n \in DOMAIN before
                                            THEN Len(before) ELSE Len(before) + 1
               ELSE /\ es_data'[category].Output_String
                            = es_data[category].Output_String \o formatted_feature'
                    /\ es_data'[category].Features = es_data[category].Features
                    /\ \E n \in DOMAIN after :
                            /\ after[n].key = gng_formatted_feature'.Group
                            /\ after[n].val.Code =
                                    (IF n \in DOMAIN before
                                     THEN before[n].val.Code \o <<Newline>>
                                     ELSE <<>>)
                                        \o gng_formatted_feature'.Code
                            /\ \A m \in DOMAIN before : m # n => after[m] = before[m]
                            /\ Len(after) = IF n \in DOMAIN before
                                            THEN Len(before) ELSE Len(before) + 1

\* C24: as long as no fatal condition ends the run the accumulators of the
\* two dialects stay in step: a feature that is appended adds its text once
\* to the primary and once to the secondary accumulator of its category, the
\* primary region accumulator has as many entries as all layers of the
\* secondary one together, and after the sorts the primary and the secondary
\* region output hold the block of every accepted region once.
C24_AccumulatorsInStep ==
    /\ [](~Aborted => RegionsInStep)
    /\ [](PrimarySorted => PrimaryRegionOutput)
    /\ [](SecondarySorted => SecondaryRegionOutput)
    /\ [][ContributesOnce]_vars

\* Two different regions of one layer and a geo line were accepted and the
\* outputs of both dialects are written.
C24_Witness ==
    /\ SecondarySorted
    /\ Len(accepted_regions) = 2
    /\ AcceptedGng[1].RegionName = AcceptedGng[2].RegionName
    /\ AcceptedEs[1] # AcceptedEs[2]
    /\ Len(gng_data.regions.Features) = 1
    /\ Len(es_data.regions.Output_String) > 0
    /\ Len(gng_data.regions.Output_String) > 0

====
